---- MODULE Spec2Model ----
(***************************************************************************)
(* git-diff-loc: the diff scanner (parse_diff), the classifiers            *)
(* (Language::from_filename, classify_line, is_test_file) and the report   *)
(* (print_results) of src/main.rs.                                         *)
(*                                                                         *)
(* A Rust &str is modelled as a sequence of one-character strings, so that *)
(* prefix tests, trimming, splitting and case folding are computed on the  *)
(* characters as the code computes them.  Option<T> is <<>> for None and   *)
(* <<v>> for Some(v).                                                      *)
(***************************************************************************)
EXTENDS Integers, Sequences, FiniteSets, TLC

VARIABLES pc, current_file, code_stats, comment_stats, line, nlines,
          rows, total_line, fn_in, fn_out

vars == <<pc, current_file, code_stats, comment_stats, line, nlines,
          rows, total_line, fn_in, fn_out>>

\* ---------------------------------------------------------------- bounds
\* number of diff lines one run scans
MaxLines == 5
\* longest enumerated file name given to Language::from_filename
MaxNameLen == 4
\* most path components of a path given to is_test_file
MaxComps == 2

\* ------------------------------------------------------- string helpers
None == <<>>

Some(v) == <<v>>

\* char::is_whitespace, on the characters the model uses
Whitespace == {" ", "\t"}

    \* "ABCDEFGHIJKLMNOPQRSTUVWXYZ"
UpperChars == <<"A", "B", "C", "D", "E", "F", "G", "H", "I", "J", "K", "L", "M", "N", "O", "P", "Q", "R", "S", "T", "U", "V", "W", "X", "Y", "Z">>

    \* "abcdefghijklmnopqrstuvwxyz"
LowerChars == <<"a", "b", "c", "d", "e", "f", "g", "h", "i", "j", "k", "l", "m", "n", "o", "p", "q", "r", "s", "t", "u", "v", "w", "x", "y", "z">>

Digits == {"0", "1", "2", "3", "4", "5", "6", "7", "8", "9"}

Letters == {UpperChars[i] : i \in 1..26} \cup {LowerChars[i] : i \in 1..26}

\* char::is_alphanumeric, on ASCII
is_alphanumeric(c) == c \in Digits \/ c \in Letters

\* the lower-case letter of each upper-case one
LowerOf == [c \in {UpperChars[i] : i \in 1..26} |->
               LowerChars[CHOOSE i \in 1..26 : c = UpperChars[i]]]

\* char::to_lowercase, on ASCII
LowerChar(c) == IF c \in DOMAIN LowerOf THEN LowerOf[c] ELSE c

\* str::to_lowercase
to_lowercase(s) == [i \in 1..Len(s) |-> LowerChar(s[i])]

\* str::starts_with
starts_with(s, p) == Len(s) >= Len(p) /\ SubSeq(s, 1, Len(p)) = p

\* str::ends_with
ends_with(s, p) == Len(s) >= Len(p) /\ SubSeq(s, Len(s) - Len(p) + 1, Len(s)) = p

\* str::contains(char)
contains(s, c) == \E i \in 1..Len(s) : s[i] = c

SetMax(S) == CHOOSE x \in S : \A y \in S : y <= x

SetMin(S) == CHOOSE x \in S : \A y \in S : x <= y

\* str::rfind(char): 1-based position of the last occurrence, None if absent
rfind(s, c) ==
    LET pos == {i \in 1..Len(s) : s[i] = c}
    IN  IF pos = {} THEN None ELSE Some(SetMax(pos))

\* str::trim: drop leading and trailing whitespace
trim(s) ==
    LET keep == {i \in 1..Len(s) : s[i] \notin Whitespace}
    IN  IF keep = {} THEN <<>> ELSE SubSeq(s, SetMin(keep), SetMax(keep))

\* the non-empty maximal runs of characters outside seps, in order
RECURSIVE SplitBy(_, _, _, _)
SplitBy(s, seps, cur, acc) ==
    IF s = <<>>
    THEN IF cur = <<>> THEN acc ELSE Append(acc, cur)
    ELSE IF Head(s) \in seps
         THEN SplitBy(Tail(s), seps, <<>>, IF cur = <<>> THEN acc ELSE Append(acc, cur))
         ELSE SplitBy(Tail(s), seps, Append(cur, Head(s)), acc)

\* str::split_whitespace().collect()
split_whitespace(s) == SplitBy(s, Whitespace, <<>>, <<>>)

\* str::trim_start_matches(pat): removes the prefix pat repeatedly
RECURSIVE trim_start_matches(_, _)
trim_start_matches(s, p) ==
    IF p # <<>> /\ starts_with(s, p)
    THEN trim_start_matches(SubSeq(s, Len(p) + 1, Len(s)), p)
    ELSE s

\* ------------------------------------------------------------- Language
Languages == {"Rust", "CCpp", "Go", "Python", "JavaScript", "TypeScript", "Java",
              "CMake", "Shell", "Ruby", "Markdown", "Text", "Dotfiles", "Unknown"}

\* the match on the lower-cased extension
ExtensionMatch(ext) ==
    \* "rs"
    CASE ext = <<"r", "s">> -> "Rust"
      \* "cpp" "cc" "cxx" "hpp" "hxx"
      [] ext \in {<<"c">>, <<"h">>, <<"c", "p", "p">>, <<"c", "c">>, <<"c", "x", "x">>,
          <<"h", "p", "p">>, <<"h", "x", "x">>} -> "CCpp"
      \* "go"
      [] ext = <<"g", "o">> -> "Go"
      \* "py"
      [] ext = <<"p", "y">> -> "Python"
      \* "js" "jsx"
      [] ext \in {<<"j", "s">>, <<"j", "s", "x">>} -> "JavaScript"
      \* "ts" "tsx"
      [] ext \in {<<"t", "s">>, <<"t", "s", "x">>} -> "TypeScript"
      \* "java"
      [] ext = <<"j", "a", "v", "a">> -> "Java"
      \* "cmake"
      [] ext = <<"c", "m", "a", "k", "e">> -> "CMake"
      \* "sh" "bash"
      [] ext \in {<<"s", "h">>, <<"b", "a", "s", "h">>} -> "Shell"
      \* "rb"
      [] ext = <<"r", "b">> -> "Ruby"
      \* "md" "markdown"
      [] ext \in {<<"m", "d">>, <<"m", "a", "r", "k", "d", "o", "w", "n">>} -> "Markdown"
      \* "txt"
      [] ext = <<"t", "x", "t">> -> "Text"
      [] OTHER -> "Unknown"

\* from_filename with the CMakeLists.txt test made on the name as written
from_filename_CaseSensitive(filename) ==
    LET ext_pos == rfind(filename, ".")
    \* "cmakelists.txt"
    IN  IF filename = <<"c", "m", "a", "k", "e", "l", "i", "s", "t", "s", ".", "t", "x", "t">> THEN "CMake"
        ELSE IF starts_with(filename, <<".">>) /\ ~contains(Tail(filename), ".") THEN "Dotfiles"
        ELSE IF ext_pos # None
             THEN ExtensionMatch(to_lowercase(SubSeq(filename, ext_pos[1] + 1, Len(filename))))
             ELSE "Unknown"

from_filename(filename) ==
    LET lower_filename == to_lowercase(filename)
        ext_pos == rfind(filename, ".")
    \* "cmakelists.txt"
    IN  IF lower_filename = <<"c", "m", "a", "k", "e", "l", "i", "s", "t", "s", ".", "t", "x", "t">> THEN "CMake"
        ELSE IF starts_with(filename, <<".">>) /\ ~contains(Tail(filename), ".") THEN "Dotfiles"
        ELSE IF ext_pos # None
             THEN ExtensionMatch(to_lowercase(SubSeq(filename, ext_pos[1] + 1, Len(filename))))
             ELSE "Unknown"

comment_prefixes(language) ==
    \* "//"
    CASE language \in {"Rust", "CCpp", "Go", "JavaScript", "TypeScript", "Java"} -> <<<<"/", "/">>>>
      [] language \in {"Python", "CMake", "Shell", "Ruby", "Dotfiles"} -> <<<<"#">>>>
      [] language \in {"Markdown", "Text"} -> <<>>
      \* "//"
      [] language = "Unknown" -> <<<<"/", "/">>>>

name(language) ==
    \* "Rust"
    CASE language = "Rust" -> <<"R", "u", "s", "t">>
      \* "C/C++"
      [] language = "CCpp" -> <<"C", "/", "C", "+", "+">>
      \* "Go"
      [] language = "Go" -> <<"G", "o">>
      \* "Python"
      [] language = "Python" -> <<"P", "y", "t", "h", "o", "n">>
      \* "JavaScript"
      [] language = "JavaScript" -> <<"J", "a", "v", "a", "S", "c", "r", "i", "p", "t">>
      \* "TypeScript"
      [] language = "TypeScript" -> <<"T", "y", "p", "e", "S", "c", "r", "i", "p", "t">>
      \* "Java"
      [] language = "Java" -> <<"J", "a", "v", "a">>
      \* "CMake"
      [] language = "CMake" -> <<"C", "M", "a", "k", "e">>
      \* "Shell"
      [] language = "Shell" -> <<"S", "h", "e", "l", "l">>
      \* "Ruby"
      [] language = "Ruby" -> <<"R", "u", "b", "y">>
      \* "Markdown"
      [] language = "Markdown" -> <<"M", "a", "r", "k", "d", "o", "w", "n">>
      \* "Text"
      [] language = "Text" -> <<"T", "e", "x", "t">>
      \* "Dotfiles"
      [] language = "Dotfiles" -> <<"D", "o", "t", "f", "i", "l", "e", "s">>
      \* "Unknown"
      [] language = "Unknown" -> <<"U", "n", "k", "n", "o", "w", "n">>

\* ----------------------------------------------------------------- Stats
StatsDefault == [added |-> 0, removed |-> 0, test_added |-> 0, test_removed |-> 0]

total(s) == s.added + s.removed

test_total(s) == s.test_added + s.test_removed

\* ------------------------------------------------------------ std::path
\* the components of a path among its parts between '/': a "." part is one
\* only when it leads a relative path, and a rooted path begins with "/"
NormalParts(parts, rooted) ==
    LET keep == {i \in 1..Len(parts) : parts[i] # <<".">> \/ (i = 1 /\ ~rooted)}
        kept == [k \in 1..Cardinality(keep) |->
                   parts[CHOOSE i \in keep : Cardinality({j \in keep : j <= i}) = k]]
    IN  IF rooted THEN <<<<"/">>>> \o kept ELSE kept

\* Path::components
components(file_path) ==
    NormalParts(SplitBy(file_path, {"/"}, <<>>, <<>>), starts_with(file_path, <<"/">>))

\* the last component when it is a normal one
LastNormal(cs) ==
    \* ".."
    IF cs = <<>> \/ cs[Len(cs)] \in {<<".">>, <<".", ".">>, <<"/">>}
    THEN None ELSE Some(cs[Len(cs)])

\* Path::file_name
file_name(file_path) == LastNormal(components(file_path))

\* the stem of a file name: the name up to its last '.', the whole name when
\* it has no '.' or only a leading one
StemOf(fname) ==
    IF fname = None THEN None
    ELSE LET dot == rfind(fname[1], ".")
         IN  IF dot = None \/ dot[1] = 1 THEN fname
             ELSE Some(SubSeq(fname[1], 1, dot[1] - 1))

\* Path::file_stem
file_stem(file_path) == StemOf(file_name(file_path))

\* ------------------------------------------------------------ classifiers
\* is_empty_line without the alphanumeric test
is_empty_line_OnlyEmpty(l) == l = <<>>

is_empty_line(l) == l = <<>> \/ ~(\E i \in 1..Len(l) : is_alphanumeric(l[i]))

\* the loop over path.components(): a component is "test" or "tests"
HasTestComponent(cs) ==
    \E i \in 1..Len(cs) :
        \* "test" "tests"
        to_lowercase(cs[i]) = <<"t", "e", "s", "t">> \/ to_lowercase(cs[i]) = <<"t", "e", "s", "t", "s">>

\* HasTestSuffix with the test made on the stem as written
HasTestSuffix_CaseSensitive(stem) ==
    IF stem # None
    \* "_test"
    THEN \/ ends_with(stem[1], <<"_", "t", "e", "s", "t">>)
         \* "_tests"
         \/ ends_with(stem[1], <<"_", "t", "e", "s", "t", "s">>)
         \* "-test"
         \/ ends_with(stem[1], <<"-", "t", "e", "s", "t">>)
         \* "-tests"
         \/ ends_with(stem[1], <<"-", "t", "e", "s", "t", "s">>)
    ELSE FALSE

\* the test on path.file_stem(): it ends with _test, _tests, -test or -tests
HasTestSuffix(stem) ==
    IF stem # None
    \* "_test"
    THEN \/ ends_with(to_lowercase(stem[1]), <<"_", "t", "e", "s", "t">>)
         \* "_tests"
         \/ ends_with(to_lowercase(stem[1]), <<"_", "t", "e", "s", "t", "s">>)
         \* "-test"
         \/ ends_with(to_lowercase(stem[1]), <<"-", "t", "e", "s", "t">>)
         \* "-tests"
         \/ ends_with(to_lowercase(stem[1]), <<"-", "t", "e", "s", "t", "s">>)
    ELSE FALSE

is_test_file(file_path) ==
    IF HasTestComponent(components(file_path)) THEN TRUE
    ELSE HasTestSuffix(file_stem(file_path))

\* Language::from_filename of the file name, Unknown without one
LanguageOf(fname) == IF fname # None THEN from_filename(fname[1]) ELSE "Unknown"

detect_language(file_path) == LanguageOf(file_name(file_path))

\* the line starts with one of the prefixes
StartsWithAny(l, prefixes) == \E i \in 1..Len(prefixes) : starts_with(l, prefixes[i])

\* LineType::Comment or LineType::Code
classify_line(l, language) ==
    IF StartsWithAny(l, comment_prefixes(language)) THEN "Comment" ELSE "Code"

\* extract_file_path taking the last token of a header of 3 tokens or more
extract_file_path_ThreeTokens(diff_line) ==
    LET parts == split_whitespace(diff_line)
    IN  IF Len(parts) >= 3
        \* "b/"
        THEN Some(trim_start_matches(parts[Len(parts)], <<"b", "/">>))
        ELSE None

extract_file_path(diff_line) ==
    LET parts == split_whitespace(diff_line)
    IN  IF Len(parts) >= 4
        \* "b/"
        THEN Some(trim_start_matches(parts[4], <<"b", "/">>))
        ELSE None

\* CounterOf with the test counters never chosen
CounterOf_NoTest(is_test, is_added) == IF is_added THEN "added" ELSE "removed"

\* the counter of Stats one counted line goes to
CounterOf(is_test, is_added) ==
    IF is_test
    THEN IF is_added THEN "test_added" ELSE "test_removed"
    ELSE IF is_added THEN "added" ELSE "removed"

\* code_stats.entry(language).or_insert_with(Stats::default)
or_insert(cs, language) ==
    IF language \in DOMAIN cs THEN cs
    ELSE [l \in DOMAIN cs \cup {language} |-> IF l = language THEN StatsDefault ELSE cs[l]]

\* CountLine with the map entry made for comment lines too
CountLine_EntryFirst(language, line_type, is_test, is_added, cs, ms) ==
    IF line_type = "Code"
    THEN [code |-> [or_insert(cs, language)
                        EXCEPT ![language][CounterOf(is_test, is_added)] = @ + 1],
          comment |-> ms]
    ELSE [code |-> or_insert(cs, language),
          comment |-> [ms EXCEPT ![CounterOf(is_test, is_added)] = @ + 1]]

\* the match on line_type of classify_and_count: the accumulators after one
\* counted line, as [code |-> .., comment |-> ..]
CountLine(language, line_type, is_test, is_added, cs, ms) ==
    IF line_type = "Code"
    THEN [code |-> [or_insert(cs, language)
                        EXCEPT ![language][CounterOf(is_test, is_added)] = @ + 1],
          comment |-> ms]
    ELSE [code |-> cs,
          comment |-> [ms EXCEPT ![CounterOf(is_test, is_added)] = @ + 1]]

\* the accumulators after classify_and_count
classify_and_count(l, file_path, cs, ms, is_added) ==
    IF is_empty_line(trim(l))
    THEN [code |-> cs, comment |-> ms]
    ELSE CountLine(detect_language(file_path),
                   classify_line(trim(l), detect_language(file_path)),
                   is_test_file(file_path), is_added, cs, ms)

\* ------------------------------------------------------------ diff input
    \* "diff --git"
DiffGit == <<"d", "i", "f", "f", " ", "-", "-", "g", "i", "t">>

\* the header git prints for a change of old to new
    \* " a/" " b/"
Header(old, new) == DiffGit \o <<" ", "a", "/">> \o old \o <<" ", "b", "/">> \o new

\* new-side paths of the scanned diffs
    \* "src/main.rs" "tests/foo.py" "b/x.c" "README.md"
Paths == {<<"s", "r", "c", "/", "m", "a", "i", "n", ".", "r", "s">>,
    <<"t", "e", "s", "t", "s", "/", "f", "o", "o", ".", "p", "y">>, <<"b", "/", "x", ".", "c">>,
    <<"R", "E", "A", "D", "M", "E", ".", "m", "d">>}

HeaderLines ==
    {Header(p, p) : p \in Paths}
        \* "old.rs" "src/main.rs" "diff --git" "diff --git a/src/main.rs"
        \cup {Header(<<"o", "l", "d", ".", "r", "s">>,
            <<"s", "r", "c", "/", "m", "a", "i", "n", ".", "r", "s">>), <<"d", "i", "f", "f", " ", "-", "-", "g", "i", "t">>,
            <<"d", "i", "f", "f", " ", "-", "-", "g", "i", "t", " ", "a", "/", "s", "r", "c", "/", "m", "a", "i", "n", ".", "r", "s">>}

\* texts of added and removed lines
    \* "// c" "  # c" "  // " "!!!" "+x"
Contents == {<<"x">>, <<"/", "/", " ", "c">>, <<" ", " ", "#", " ", "c">>,
    <<" ", " ", "/", "/", " ">>, <<>>, <<"!", "!", "!">>, <<"+", "x">>}

ContentLines == {<<sign>> \o c : sign \in {"+", "-"}, c \in Contents}

    \* "+++ b/src/main.rs" "--- a/src/main.rs" "@@ -1 +1 @@" " x"
OtherLines == {<<"+", "+", "+", " ", "b", "/", "s", "r", "c", "/", "m", "a", "i", "n", ".", "r", "s">>,
    <<"-", "-", "-", " ", "a", "/", "s", "r", "c", "/", "m", "a", "i", "n", ".", "r", "s">>,
    <<"@", "@", " ", "-", "1", " ", "+", "1", " ", "@", "@">>, <<" ", "x">>}

Lines == HeaderLines \cup ContentLines \cup OtherLines

\* --------------------------------------------------------------- report
\* the bytes of the ASCII letters
LetterByte == [c \in Letters |->
                  IF \E i \in 1..26 : c = UpperChars[i]
                  THEN 64 + (CHOOSE i \in 1..26 : c = UpperChars[i])
                  ELSE 96 + (CHOOSE i \in 1..26 : c = LowerChars[i])]

\* the byte of an ASCII character, which str's Ord compares
ByteOf(c) ==
    IF c \in Letters THEN LetterByte[c]
    ELSE CASE c = " " -> 32 [] c = "#" -> 35 [] c = "+" -> 43 [] c = "-" -> 45
           [] c = "." -> 46 [] c = "/" -> 47 [] c = "_" -> 95 [] OTHER -> 0

\* a <= b in str's ordering (lexicographic by byte)
RECURSIVE str_le(_, _)
str_le(a, b) ==
    IF a = <<>> THEN TRUE
    ELSE IF b = <<>> THEN FALSE
    ELSE IF ByteOf(Head(a)) # ByteOf(Head(b)) THEN ByteOf(Head(a)) < ByteOf(Head(b))
    ELSE str_le(Tail(a), Tail(b))

\* the orders in which code_stats.iter() may yield the keys of the map
IterOrders(cs) ==
    LET n == Cardinality(DOMAIN cs)
    IN  {o \in [1..n -> DOMAIN cs] : \A i, j \in 1..n : i # j => o[i] # o[j]}

\* InsertByName keeping the order of arrival
InsertByName_Unsorted(sorted, lang) == Append(sorted, lang)

\* the position sort_by_key moves one element to: after the elements whose
\* key is not greater (the sort is stable)
InsertByName(sorted, lang) ==
    LET before == {i \in 1..Len(sorted) : str_le(name(sorted[i]), name(lang))}
        k == IF before = {} THEN 0 ELSE SetMax(before)
    IN  SubSeq(sorted, 1, k) \o <<lang>> \o SubSeq(sorted, k + 1, Len(sorted))

\* languages.sort_by_key(|(lang, _)| lang.name())
RECURSIVE sort_by_key(_)
sort_by_key(languages) ==
    IF languages = <<>> THEN <<>>
    ELSE InsertByName(sort_by_key(SubSeq(languages, 1, Len(languages) - 1)),
                      languages[Len(languages)])

\* one row: (name, total, added, removed, test_total, test_added, test_removed)
Row(label, s) ==
    <<label, total(s), s.added, s.removed, test_total(s), s.test_added, s.test_removed>>

RECURSIVE LanguageRows(_, _)
LanguageRows(languages, cs) ==
    IF languages = <<>> THEN <<>>
    ELSE LET s == cs[Head(languages)]
         IN  (IF total(s) > 0 \/ test_total(s) > 0
              THEN <<Row(name(Head(languages)), s)>> ELSE <<>>)
             \o LanguageRows(Tail(languages), cs)

\* the rows print_results renders, given the map's iteration order
BuildRows(order, cs, ms) ==
    \* "Comments"
    (IF total(ms) > 0 \/ test_total(ms) > 0 THEN <<Row(<<"C", "o", "m", "m", "e", "n", "t", "s">>, ms)>> ELSE <<>>)
        \o LanguageRows(sort_by_key(order), cs)

\* the sum of f over the values of the map
RECURSIVE SumValues(_, _)
SumValues(f, keys) ==
    IF keys = {} THEN 0
    ELSE LET k == CHOOSE x \in keys : TRUE
         IN  f[k] + SumValues(f, keys \ {k})

total_code(cs) == SumValues([l \in DOMAIN cs |-> total(cs[l])], DOMAIN cs)

total_test(cs) == SumValues([l \in DOMAIN cs |-> test_total(cs[l])], DOMAIN cs)

total_all(cs, ms) == total_code(cs) + total_test(cs) + total(ms)

\* ------------------------------------------------------- the diff scanner
Init ==
    /\ pc = "scan"
    /\ current_file = None
    /\ code_stats = [l \in {} |-> StatsDefault]
    /\ comment_stats = StatsDefault
    /\ line = None
    /\ nlines = 0
    /\ rows = <<>>
    /\ total_line = None
    /\ fn_in = None
    /\ fn_out = None

\* one iteration of the loop of parse_diff reads the line l
ReadLine(l) ==
    /\ pc = "scan"
    /\ nlines < MaxLines
    /\ l \in Lines
    /\ line' = Some(l)
    /\ nlines' = nlines + 1
    /\ UNCHANGED <<pc, rows, total_line, fn_in, fn_out>>

IsHeader(l) == starts_with(l, DiffGit)

    \* "+++"
IsAdded(l) == ~IsHeader(l) /\ starts_with(l, <<"+">>) /\ ~starts_with(l, <<"+", "+", "+">>)

IsRemoved(l) ==
    \* "---"
    ~IsHeader(l) /\ ~IsAdded(l) /\ starts_with(l, <<"-">>) /\ ~starts_with(l, <<"-", "-", "-">>)

\* the accumulators after a content line: counted only under a current file
Count(l, is_added) ==
    IF current_file # None
    THEN classify_and_count(Tail(l), current_file[1], code_stats, comment_stats, is_added)
    ELSE [code |-> code_stats, comment |-> comment_stats]

ScanHeader ==
    \E l \in Lines :
        /\ IsHeader(l)
        /\ ReadLine(l)
        /\ current_file' = extract_file_path(l)
        /\ UNCHANGED <<code_stats, comment_stats>>

ScanAdded ==
    \E l \in Lines :
        /\ IsAdded(l)
        /\ ReadLine(l)
        /\ \E r \in {Count(l, TRUE)} :
               code_stats' = r.code /\ comment_stats' = r.comment
        /\ UNCHANGED current_file

ScanRemoved ==
    \E l \in Lines :
        /\ IsRemoved(l)
        /\ ReadLine(l)
        /\ \E r \in {Count(l, FALSE)} :
               code_stats' = r.code /\ comment_stats' = r.comment
        /\ UNCHANGED current_file

ScanOther ==
    \E l \in Lines :
        /\ ~IsHeader(l) /\ ~IsAdded(l) /\ ~IsRemoved(l)
        /\ ReadLine(l)
        /\ UNCHANGED <<current_file, code_stats, comment_stats>>

\* the scan is over (the diff may have any number of lines up to MaxLines)
\* and main calls print_results
PrintResults ==
    /\ pc = "scan"
    /\ \E order \in IterOrders(code_stats) :
           rows' = BuildRows(order, code_stats, comment_stats)
    /\ total_line' = IF total_all(code_stats, comment_stats) > 0
                     THEN Some(total_all(code_stats, comment_stats))
                     ELSE None
    /\ pc' = "done"
    /\ UNCHANGED <<current_file, code_stats, comment_stats, line, nlines, fn_in, fn_out>>

Next == ScanHeader \/ ScanAdded \/ ScanRemoved \/ ScanOther \/ PrintResults

Spec == Init /\ [][Next]_vars

TypeOK ==
    /\ pc \in {"scan", "done"}
    /\ nlines \in 0..MaxLines
    /\ DOMAIN code_stats \subseteq Languages

\* ------------------------------------------- Language::from_filename alone
\* every name of at most MaxNameLen characters over NameChars
NameChars == {".", "r", "s", "H", "x"}

ShortNames == UNION {[1..n -> NameChars] : n \in 0..MaxNameLen}

\* one name for each extension of the table, and names of the special rules
NamedFiles ==
    \* "CMakeLists.txt" "cmakelists.txt" "CMAKELISTS.TXT" "xCMakeLists.txt"
    {<<"C", "M", "a", "k", "e", "L", "i", "s", "t", "s", ".", "t", "x", "t">>,
        <<"c", "m", "a", "k", "e", "l", "i", "s", "t", "s", ".", "t", "x", "t">>,
        <<"C", "M", "A", "K", "E", "L", "I", "S", "T", "S", ".", "T", "X", "T">>,
        <<"x", "C", "M", "a", "k", "e", "L", "i", "s", "t", "s", ".", "t", "x", "t">>,
     \* "CMakeLists.txt.in" ".gitignore" ".Config" ".eslintrc.js" ".txt"
     <<"C", "M", "a", "k", "e", "L", "i", "s", "t", "s", ".", "t", "x", "t", ".", "i", "n">>,
         <<".", "g", "i", "t", "i", "g", "n", "o", "r", "e">>,
         <<".", "C", "o", "n", "f", "i", "g">>,
         <<".", "e", "s", "l", "i", "n", "t", "r", "c", ".", "j", "s">>, <<".", "t", "x", "t">>,
     \* "README" "Makefile" "main.rs" "MAIN.RS" "a.c" "a.h" "a.cpp"
     <<"R", "E", "A", "D", "M", "E">>, <<"M", "a", "k", "e", "f", "i", "l", "e">>,
         <<"m", "a", "i", "n", ".", "r", "s">>, <<"M", "A", "I", "N", ".", "R", "S">>,
         <<"a", ".", "c">>, <<"a", ".", "h">>, <<"a", ".", "c", "p", "p">>,
     \* "a.cc" "a.cxx" "a.hpp" "a.hxx" "a.go" "a.py" "a.js" "a.jsx"
     <<"a", ".", "c", "c">>, <<"a", ".", "c", "x", "x">>, <<"a", ".", "h", "p", "p">>,
         <<"a", ".", "h", "x", "x">>, <<"a", ".", "g", "o">>, <<"a", ".", "p", "y">>,
         <<"a", ".", "j", "s">>, <<"a", ".", "j", "s", "x">>,
     \* "a.ts" "a.tsx" "a.java" "a.cmake" "a.sh" "a.bash" "a.rb"
     <<"a", ".", "t", "s">>, <<"a", ".", "t", "s", "x">>, <<"a", ".", "j", "a", "v", "a">>,
         <<"a", ".", "c", "m", "a", "k", "e">>, <<"a", ".", "s", "h">>,
         <<"a", ".", "b", "a", "s", "h">>, <<"a", ".", "r", "b">>,
     \* "a.md" "a.Markdown" "a.txt" "a.tar.gz" "a.rs.bak" "a.py.txt"
     <<"a", ".", "m", "d">>, <<"a", ".", "M", "a", "r", "k", "d", "o", "w", "n">>,
         <<"a", ".", "t", "x", "t">>, <<"a", ".", "t", "a", "r", ".", "g", "z">>,
         <<"a", ".", "r", "s", ".", "b", "a", "k">>, <<"a", ".", "p", "y", ".", "t", "x", "t">>,
     \* "rs" "a.yaml"
     <<"r", "s">>, <<"a", ".", "y", "a", "m", "l">>}

Filenames == ShortNames \cup NamedFiles

InitLang ==
    /\ pc = "from_filename"
    /\ fn_in \in {Some(f) : f \in Filenames}
    /\ fn_out = None
    /\ current_file = None
    /\ code_stats = [l \in {} |-> StatsDefault]
    /\ comment_stats = StatsDefault
    /\ line = None
    /\ nlines = 0
    /\ rows = <<>>
    /\ total_line = None

CallFromFilename ==
    /\ pc = "from_filename"
    /\ fn_out' = Some(from_filename(fn_in[1]))
    /\ pc' = "from_filename_done"
    /\ UNCHANGED <<current_file, code_stats, comment_stats, line, nlines, rows, total_line,
                   fn_in>>

NextLang == CallFromFilename

SpecLang == InitLang /\ [][NextLang]_vars

\* ------------------------------------------------------ is_test_file alone
\* path components as git prints them: no empty, "." or ".." component
Comps ==
    \* "test" "tests" "Test" "TESTS" "src" "testx" "xtest" "attest"
    {<<"t", "e", "s", "t">>, <<"t", "e", "s", "t", "s">>, <<"T", "e", "s", "t">>,
        <<"T", "E", "S", "T", "S">>, <<"s", "r", "c">>, <<"t", "e", "s", "t", "x">>,
        <<"x", "t", "e", "s", "t">>, <<"a", "t", "t", "e", "s", "t">>,
     \* "test.rs" "tests.py" "foo.rs" "foo_test.py" "foo_tests.py"
     <<"t", "e", "s", "t", ".", "r", "s">>, <<"t", "e", "s", "t", "s", ".", "p", "y">>,
         <<"f", "o", "o", ".", "r", "s">>,
         <<"f", "o", "o", "_", "t", "e", "s", "t", ".", "p", "y">>,
         <<"f", "o", "o", "_", "t", "e", "s", "t", "s", ".", "p", "y">>,
     \* "foo-test.rs" "foo-Tests.rs" "FOO_TEST.RS" "foo_test" "_test"
     <<"f", "o", "o", "-", "t", "e", "s", "t", ".", "r", "s">>,
         <<"f", "o", "o", "-", "T", "e", "s", "t", "s", ".", "r", "s">>,
         <<"F", "O", "O", "_", "T", "E", "S", "T", ".", "R", "S">>,
         <<"f", "o", "o", "_", "t", "e", "s", "t">>, <<"_", "t", "e", "s", "t">>,
     \* "foo_test.tar.gz" "foo.test" "foo._test" "foo_test." "foo_testy.rs"
     <<"f", "o", "o", "_", "t", "e", "s", "t", ".", "t", "a", "r", ".", "g", "z">>,
         <<"f", "o", "o", ".", "t", "e", "s", "t">>,
         <<"f", "o", "o", ".", "_", "t", "e", "s", "t">>,
         <<"f", "o", "o", "_", "t", "e", "s", "t", ".">>,
         <<"f", "o", "o", "_", "t", "e", "s", "t", "y", ".", "r", "s">>,
     \* "test_foo.py" "footest.rs" ".test" "._test" ".x_tests" "foo.rs_test"
     <<"t", "e", "s", "t", "_", "f", "o", "o", ".", "p", "y">>,
         <<"f", "o", "o", "t", "e", "s", "t", ".", "r", "s">>, <<".", "t", "e", "s", "t">>,
         <<".", "_", "t", "e", "s", "t">>, <<".", "x", "_", "t", "e", "s", "t", "s">>,
         <<"f", "o", "o", ".", "r", "s", "_", "t", "e", "s", "t">>}

RECURSIVE JoinPath(_)
JoinPath(cs) ==
    IF Len(cs) = 1 THEN cs[1] ELSE cs[1] \o <<"/">> \o JoinPath(Tail(cs))

TestPaths == {JoinPath(cs) : cs \in UNION {[1..n -> Comps] : n \in 1..MaxComps}}

InitTest ==
    /\ pc = "is_test_file"
    /\ fn_in \in {Some(p) : p \in TestPaths}
    /\ fn_out = None
    /\ current_file = None
    /\ code_stats = [l \in {} |-> StatsDefault]
    /\ comment_stats = StatsDefault
    /\ line = None
    /\ nlines = 0
    /\ rows = <<>>
    /\ total_line = None

CallIsTestFile ==
    /\ pc = "is_test_file"
    /\ fn_out' = Some(is_test_file(fn_in[1]))
    /\ pc' = "is_test_file_done"
    /\ UNCHANGED <<current_file, code_stats, comment_stats, line, nlines, rows, total_line,
                   fn_in>>

NextTest == CallIsTestFile

SpecTest == InitTest /\ [][NextTest]_vars

\* ================================================================= claims

\* ----------------------------------------------------------------- C7
\* the extension table of rule (3), as pairs
ExtensionTable ==
    \* "rs" "cpp"
    {<<<<"r", "s">>, "Rust">>, <<<<"c">>, "CCpp">>, <<<<"h">>, "CCpp">>,
        <<<<"c", "p", "p">>, "CCpp">>,
     \* "cc" "cxx" "hpp" "hxx"
     <<<<"c", "c">>, "CCpp">>, <<<<"c", "x", "x">>, "CCpp">>, <<<<"h", "p", "p">>, "CCpp">>,
         <<<<"h", "x", "x">>, "CCpp">>,
     \* "go" "py" "js"
     <<<<"g", "o">>, "Go">>, <<<<"p", "y">>, "Python">>, <<<<"j", "s">>, "JavaScript">>,
     \* "jsx" "ts" "tsx"
     <<<<"j", "s", "x">>, "JavaScript">>, <<<<"t", "s">>, "TypeScript">>,
         <<<<"t", "s", "x">>, "TypeScript">>,
     \* "java" "cmake" "sh"
     <<<<"j", "a", "v", "a">>, "Java">>, <<<<"c", "m", "a", "k", "e">>, "CMake">>,
         <<<<"s", "h">>, "Shell">>,
     \* "bash" "rb" "md"
     <<<<"b", "a", "s", "h">>, "Shell">>, <<<<"r", "b">>, "Ruby">>, <<<<"m", "d">>, "Markdown">>,
     \* "markdown" "txt"
     <<<<"m", "a", "r", "k", "d", "o", "w", "n">>, "Markdown">>, <<<<"t", "x", "t">>, "Text">>}

\* C7: Language::from_filename is total and applies its rules in priority
\* order: (1) a name equal to "cmakelists.txt" ignoring case is CMake;
\* (2) otherwise a name that starts with '.' and has no other '.' is
\* Dotfiles; (3) otherwise the lower-cased text after the last '.' is looked
\* up in the extension table, an unlisted extension giving Unknown; (4) a
\* name with no '.' is Unknown.
C7_RulePriority ==
    pc = "from_filename_done" =>
        LET f == fn_in[1]
            dots == {i \in 1..Len(f) : f[i] = "."}
            \* "cmakelists.txt"
            isCMake == to_lowercase(f) = <<"c", "m", "a", "k", "e", "l", "i", "s", "t", "s", ".", "t", "x", "t">>
            ext == to_lowercase(SubSeq(f, SetMax(dots) + 1, Len(f)))
        IN  /\ fn_out # None /\ fn_out[1] \in Languages
            /\ isCMake => fn_out[1] = "CMake"
            /\ (~isCMake /\ dots = {1}) => fn_out[1] = "Dotfiles"
            /\ (~isCMake /\ dots # {} /\ dots # {1}) =>
                   /\ \A e \in ExtensionTable : e[1] = ext => fn_out[1] = e[2]
                   /\ (\A e \in ExtensionTable : e[1] # ext) => fn_out[1] = "Unknown"
            /\ dots = {} => fn_out[1] = "Unknown"

\* "CMakeLists.txt" was classified CMake although its extension is txt
C7_Witness ==
    \* "CMakeLists.txt"
    pc = "from_filename_done" /\ fn_in = Some(<<"C", "M", "a", "k", "e", "L", "i", "s", "t", "s", ".", "t", "x", "t">>) /\ fn_out = Some("CMake")

\* ----------------------------------------------------------------- C6
\* the parts of a path between '/' characters
PathParts(p) ==
    {SubSeq(p, ij[1], ij[2]) : ij \in
        {ij \in (1..Len(p)) \X (1..Len(p)) :
            /\ ij[1] <= ij[2]
            /\ \A k \in ij[1]..ij[2] : p[k] # "/"
            /\ (ij[1] = 1 \/ p[ij[1] - 1] = "/")
            /\ (ij[2] = Len(p) \/ p[ij[2] + 1] = "/")}}

\* the part after the last '/'
LastPart(p) ==
    LET slashes == {i \in 1..Len(p) : p[i] = "/"}
    IN  IF slashes = {} THEN p ELSE SubSeq(p, SetMax(slashes) + 1, Len(p))

\* a file name without its final extension; a '.' that begins the name
\* starts no extension
WithoutExtension(f) ==
    LET dots == {i \in 2..Len(f) : f[i] = "."}
    IN  IF dots = {} THEN f ELSE SubSeq(f, 1, SetMax(dots) - 1)

Fields == {"added", "removed", "test_added", "test_removed"}

\* a counter of a language, 0 when the map has no entry for it
CodeCounter(cs, language, field) ==
    IF language \in DOMAIN cs THEN cs[language][field] ELSE 0

\* the step is one iteration of the scan loop
ScanStep == pc = "scan" /\ pc' = "scan" /\ nlines' = nlines + 1

\* l begins with sign but not with three of them
Signed(l, sign) ==
    /\ Len(l) >= 1 /\ l[1] = sign
    /\ ~(Len(l) >= 3 /\ l[2] = sign /\ l[3] = sign)

\* the trimmed text after the sign has an alphanumeric character
HasAlnum(l) == \E c \in {trim(Tail(l))[i] : i \in 1..Len(trim(Tail(l)))} : is_alphanumeric(c)

\* the number of whitespace-delimited tokens of l
TokenCount(l) ==
    Cardinality({i \in 1..Len(l) : l[i] \notin Whitespace /\ (i = 1 \/ l[i - 1] \in Whitespace)})

\* ----------------------------------------------------------------- C1
\* C1: a '+' (not '+++') or '-' (not '---') line, read while a current file
\* is set, whose trimmed content has an alphanumeric character, increments
\* exactly one counter by exactly 1 and leaves every other counter
\* unchanged: a counter of the comment accumulator if the trimmed content
\* starts with a comment prefix of the current file's language, otherwise of
\* that language's code accumulator; the test counter iff the file's path is
\* a test path, the added counter iff the line began with '+'.
C1_ExactlyOneCounter ==
    [][ScanStep =>
          LET l == line'[1]
          IN  ((Signed(l, "+") \/ Signed(l, "-")) /\ current_file # None /\ HasAlnum(l)) =>
                  LET file == current_file[1]
                      lang == detect_language(file)
                      text == trim(Tail(l))
                      prefixes == comment_prefixes(lang)
                      isComment == \E i \in 1..Len(prefixes) : starts_with(text, prefixes[i])
                      field == IF is_test_file(file)
                               THEN (IF l[1] = "+" THEN "test_added" ELSE "test_removed")
                               ELSE (IF l[1] = "+" THEN "added" ELSE "removed")
                  IN  /\ \A f \in Fields :
                             comment_stats'[f] =
                                 comment_stats[f] + (IF isComment /\ f = field THEN 1 ELSE 0)
                      /\ DOMAIN code_stats' \subseteq Languages
                      /\ \A g \in DOMAIN code_stats \cup DOMAIN code_stats' \cup {lang},
                            f \in Fields :
                             CodeCounter(code_stats', g, f) =
                                 CodeCounter(code_stats, g, f)
                                     + (IF ~isComment /\ g = lang /\ f = field THEN 1 ELSE 0)
       ]_vars

\* an added '#' comment line of tests/foo.py went to the comment
\* accumulator's test_added and nowhere else
C1_Witness ==
    /\ pc = "scan" /\ nlines = 2
    \* "tests/foo.py"
    /\ current_file = Some(<<"t", "e", "s", "t", "s", "/", "f", "o", "o", ".", "p", "y">>)
    \* "+  # c"
    /\ line = Some(<<"+", " ", " ", "#", " ", "c">>)
    /\ comment_stats = [StatsDefault EXCEPT !.test_added = 1]
    /\ DOMAIN code_stats = {}

\* ----------------------------------------------------------------- C4
\* C4: a header line with fewer than 4 whitespace-delimited tokens sets the
\* current file path to none; a '+'/'-' content line read while the current
\* file path is none changes no counter and creates no map entry; a later
\* header with 4 tokens or more sets the current file path again.
C4_MalformedHeader ==
    [][ScanStep =>
          LET l == line'[1]
          IN  /\ (starts_with(l, DiffGit) /\ TokenCount(l) < 4) => current_file' = None
              /\ (starts_with(l, DiffGit) /\ TokenCount(l) >= 4) => current_file' # None
              /\ ((Signed(l, "+") \/ Signed(l, "-")) /\ current_file = None) =>
                     /\ code_stats' = code_stats
                     /\ comment_stats' = comment_stats
                     /\ current_file' = None
       ]_vars

\* a comment line was counted, a malformed header then cleared the current
\* file, and the code line read after it was dropped
C4_Witness ==
    /\ pc = "scan" /\ nlines = 4
    /\ current_file = None
    \* "+x"
    /\ line = Some(<<"+", "x">>)
    /\ comment_stats = [StatsDefault EXCEPT !.added = 1]
    /\ DOMAIN code_stats = {}

\* ----------------------------------------------------------------- C5
\* C5: a '+' or '-' content line whose trimmed content is empty or has no
\* alphanumeric character leaves every counter of every accumulator
\* unchanged and adds no entry to the language map, whatever the current
\* file and whether or not the content starts with a comment prefix.
C5_NoiseIgnored ==
    [][ScanStep =>
          LET l == line'[1]
          IN  ((Signed(l, "+") \/ Signed(l, "-")) /\ ~HasAlnum(l)) =>
                  /\ code_stats' = code_stats
                  /\ comment_stats' = comment_stats
       ]_vars

\* a code line of src/main.rs was counted, and the punctuation-only comment
\* line read after it changed nothing
C5_Witness ==
    /\ pc = "scan" /\ nlines = 3
    \* "src/main.rs"
    /\ current_file = Some(<<"s", "r", "c", "/", "m", "a", "i", "n", ".", "r", "s">>)
    \* "+  // "
    /\ line = Some(<<"+", " ", " ", "/", "/", " ">>)
    /\ comment_stats = StatsDefault
    /\ DOMAIN code_stats = {"Rust"}
    /\ code_stats["Rust"] = [StatsDefault EXCEPT !.added = 1]

\* ----------------------------------------------------------------- C9
\* C9: after any prefix of the lines, a Language is a key of the code-stats
\* map iff a counted code line (non-comment, with an alphanumeric character)
\* of that language has been read so far; every entry has
\* production total + test total >= 1; comment lines create no entry.
C9_EntryIffCodeLine ==
    /\ DOMAIN code_stats = {}
    /\ [][ScanStep =>
            LET l == line'[1]
                counted == (Signed(l, "+") \/ Signed(l, "-")) /\ current_file # None
                               /\ HasAlnum(l)
                lang == detect_language(current_file[1])
                isCode == classify_line(trim(Tail(l)), lang) = "Code"
            IN  DOMAIN code_stats' =
                    DOMAIN code_stats \cup (IF counted /\ isCode THEN {lang} ELSE {})
         ]_vars
    /\ [](\A g \in DOMAIN code_stats : total(code_stats[g]) + test_total(code_stats[g]) >= 1)

\* a comment line and a code line of tests/foo.py were read: the map has the
\* one entry Python, made by the code line
C9_Witness ==
    /\ pc = "scan" /\ nlines = 3
    \* "tests/foo.py"
    /\ current_file = Some(<<"t", "e", "s", "t", "s", "/", "f", "o", "o", ".", "p", "y">>)
    /\ comment_stats = [StatsDefault EXCEPT !.test_added = 1]
    /\ DOMAIN code_stats = {"Python"}
    /\ code_stats["Python"] = [StatsDefault EXCEPT !.test_removed = 1]

\* ---------------------------------------------------------------- C10
\* C10: after a header 'diff --git a/<old-path> b/<new-path>' the current
\* file path equals <new-path>, the new-side path with exactly its "b/"
\* marker removed.
C10_NewSidePath ==
    \* "old.rs"
    \A old \in Paths \cup {<<"o", "l", "d", ".", "r", "s">>}, new \in Paths :
        (pc = "scan" /\ line = Some(Header(old, new))) => current_file = Some(new)

\* ----------------------------------------------- claims about the report
\* the display names in ascending lexical order
DisplayOrder ==
    \* "C/C++" "CMake" "Dotfiles" "Go" "Java" "JavaScript" "Markdown"
    <<<<"C", "/", "C", "+", "+">>, <<"C", "M", "a", "k", "e">>,
        <<"D", "o", "t", "f", "i", "l", "e", "s">>, <<"G", "o">>, <<"J", "a", "v", "a">>,
        <<"J", "a", "v", "a", "S", "c", "r", "i", "p", "t">>,
        <<"M", "a", "r", "k", "d", "o", "w", "n">>,
      \* "Python" "Ruby" "Rust" "Shell" "Text" "TypeScript" "Unknown"
      <<"P", "y", "t", "h", "o", "n">>, <<"R", "u", "b", "y">>, <<"R", "u", "s", "t">>,
          <<"S", "h", "e", "l", "l">>, <<"T", "e", "x", "t">>,
          <<"T", "y", "p", "e", "S", "c", "r", "i", "p", "t">>,
          <<"U", "n", "k", "n", "o", "w", "n">>>>

\* the place of a display name in DisplayOrder, 0 for any other label
Rank(label) ==
    IF \E i \in 1..Len(DisplayOrder) : DisplayOrder[i] = label
    THEN CHOOSE i \in 1..Len(DisplayOrder) : DisplayOrder[i] = label
    ELSE 0

\* ----------------------------------------------------------------- C8
\* C8: the "Comments" row is present iff the comment accumulator has a
\* non-zero production total or test total, and is then the first row; the
\* remaining rows are exactly the languages of the map with a non-zero
\* production or test total, one row each, in ascending lexical order of
\* display name, whatever the map's iteration order.
C8_RowOrder ==
    pc = "done" =>
        LET hasComments == total(comment_stats) > 0 \/ test_total(comment_stats) > 0
            first == IF hasComments THEN 2 ELSE 1
            shown == {g \in DOMAIN code_stats :
                         total(code_stats[g]) > 0 \/ test_total(code_stats[g]) > 0}
        \* "Comments"
        IN  /\ (\E i \in 1..Len(rows) : rows[i][1] = <<"C", "o", "m", "m", "e", "n", "t", "s">>) <=> hasComments
            \* "Comments"
            /\ \A i \in 1..Len(rows) : rows[i][1] = <<"C", "o", "m", "m", "e", "n", "t", "s">> => i = 1
            /\ Len(rows) = Cardinality(shown) + first - 1
            /\ {rows[i][1] : i \in first..Len(rows)} = {name(g) : g \in shown}
            /\ \A i, j \in first..Len(rows) : i < j => Rank(rows[i][1]) < Rank(rows[j][1])

\* comments, then C/C++ before Rust, though Rust is the earlier variant
C8_Witness ==
    /\ pc = "done"
    /\ Len(rows) = 3
    \* "Comments"
    /\ rows[1][1] = <<"C", "o", "m", "m", "e", "n", "t", "s">>
    \* "C/C++"
    /\ rows[2][1] = <<"C", "/", "C", "+", "+">>
    \* "Rust"
    /\ rows[3][1] = <<"R", "u", "s", "t">>

\* ----------------------------------------------------------------- C2
\* C2: the number on the "Total changes" line equals the sum over all
\* languages of production total and test total, plus the comment
\* accumulator's totals for both production and test files.
C2_TotalIsSum ==
    (pc = "done" /\ total_line # None) =>
        total_line[1] = total_code(code_stats) + total_test(code_stats)
                            + total(comment_stats) + test_total(comment_stats)

\* ----------------------------------------------------------------- C3
\* C3: whenever a rendered row has a non-zero production total or test
\* total, print_results prints the separator and the "Total changes" line,
\* also when the only counted changes are comment lines in test files.
C3_TotalLinePrinted ==
    (pc = "done" /\ \E i \in 1..Len(rows) : rows[i][2] > 0 \/ rows[i][5] > 0) =>
        total_line # None
====
